---- MODULE Spec2Model ----
(***************************************************************************)
(* Model of the YouTube-to-whiteboard front end: the Gemini service module *)
(* (services/geminiService.ts) and the two App components that orchestrate *)
(* it (the "Recapio" App of src/unnamed/part_000 and the "MindCanvas" App  *)
(* with the free tier in src/components/StyleCard.tsx, lines 43-458).      *)
(*                                                                         *)
(* JavaScript strings are TLA+ strings handled character by character      *)
(* (Len, SubSeq, \o); indexes are 0-based as in JavaScript.                *)
(***************************************************************************)
EXTENDS Integers, Sequences, FiniteSets, TLC

-----------------------------------------------------------------------------
(* String primitives of the JavaScript runtime                             *)

\* String.prototype.charAt: "" outside the string
CharAt(s, i) == IF i < 0 \/ i >= Len(s) THEN "" ELSE SubSeq(s, i + 1, i + 1)

SetMin(S) == CHOOSE x \in S : \A y \in S : x <= y

SetMax(S) == CHOOSE x \in S : \A y \in S : x >= y

\* String.prototype.indexOf: 0-based index of the first occurrence, or -1
indexOf(s, sub) ==
  LET hits == {i \in 0..(Len(s) - Len(sub)) : SubSeq(s, i + 1, i + Len(sub)) = sub}
  IN  IF hits = {} THEN -1 ELSE SetMin(hits)

\* String.prototype.lastIndexOf: 0-based index of the last occurrence, or -1
lastIndexOf(s, sub) ==
  LET hits == {i \in 0..(Len(s) - Len(sub)) : SubSeq(s, i + 1, i + Len(sub)) = sub}
  IN  IF hits = {} THEN -1 ELSE SetMax(hits)

includes(s, sub) == indexOf(s, sub) # -1

\* String.prototype.substring(start, end) for 0 <= start <= end; both are
\* clamped to the length of the string
substring(s, start, end) ==
  LET e == IF end > Len(s) THEN Len(s) ELSE end
  IN  IF start >= e THEN "" ELSE SubSeq(s, start + 1, e)

\* white space as matched by trim(), by \s and by the JSON grammar
\* (restricted to the white space characters the replies of the model use)
IsSpace(c) == c \in {" ", "\n", "\t", "\r"}

\* 0-based index of the first character at or after i that is not white
\* space; Len(s) when there is none
SkipSpace(s, i) ==
  LET rest == {j \in i..(Len(s) - 1) : ~IsSpace(CharAt(s, j))}
  IN  IF rest = {} THEN (IF i > Len(s) THEN i ELSE Len(s)) ELSE SetMin(rest)

\* String.prototype.trim
trim(s) ==
  LET keep == {j \in 0..(Len(s) - 1) : ~IsSpace(CharAt(s, j))}
  IN  IF keep = {} THEN "" ELSE substring(s, SetMin(keep), SetMax(keep) + 1)

UpperLetters == "ABCDEFGHIJKLMNOPQRSTUVWXYZ"

LowerLetters == "abcdefghijklmnopqrstuvwxyz"

LowerChar(c) ==
  LET k == indexOf(UpperLetters, c)
  IN  IF k = -1 THEN c ELSE CharAt(LowerLetters, k)

RECURSIVE toLowerCase(_)
\* String.prototype.toLowerCase (ASCII letters)
toLowerCase(s) ==
  IF s = "" THEN "" ELSE LowerChar(CharAt(s, 0)) \o toLowerCase(Tail(s))

-----------------------------------------------------------------------------
(* JSON values and JSON.parse                                              *)
(*                                                                         *)
(* A value is a record [t, s, items]: t is its type, s the text of a       *)
(* string, number or boolean, items the elements of an array or the        *)
(* members [k, v] of an object.  The grammar covers objects, arrays,       *)
(* strings without escape sequences, integers and the three literals.      *)

JUndefined == [t |-> "undefined", s |-> "", items |-> <<>>]

JNull == [t |-> "null", s |-> "", items |-> <<>>]

JBool(b) == [t |-> "bool", s |-> b, items |-> <<>>]

JNum(digits) == [t |-> "num", s |-> digits, items |-> <<>>]

JStr(chars) == [t |-> "str", s |-> chars, items |-> <<>>]

JArr(elems) == [t |-> "arr", s |-> "", items |-> elems]

JObj(members) == [t |-> "obj", s |-> "", items |-> members]

ParseFail == [ok |-> FALSE, val |-> JUndefined, pos |-> 0]

ParseOk(v, p) == [ok |-> TRUE, val |-> v, pos |-> p]

IsDigit(c) == c # "" /\ includes("0123456789", c)

\* a string literal starting at the quote at 0-based index i
ParseString(s, i) ==
  LET closing == {j \in (i + 1)..(Len(s) - 1) : CharAt(s, j) = "\""}
  IN  IF closing = {} THEN ParseFail
      ELSE LET j == SetMin(closing)
               body == substring(s, i + 1, j)
           IN  IF \E k \in 0..(Len(body) - 1) : CharAt(body, k) \in {"\n", "\t", "\r", "\\"}
               THEN ParseFail
               ELSE ParseOk(JStr(body), j + 1)

\* an integer literal starting at 0-based index i: -?(0|[1-9][0-9]*)
ParseNumber(s, i) ==
  LET d == IF CharAt(s, i) = "-" THEN i + 1 ELSE i
      stop == {j \in d..Len(s) : ~IsDigit(CharAt(s, j))}
      e == SetMin(stop)
  IN  IF e = d THEN ParseFail
      ELSE IF CharAt(s, d) = "0" /\ e > d + 1 THEN ParseOk(JNum(substring(s, i, d + 1)), d + 1)
      ELSE ParseOk(JNum(substring(s, i, e)), e)

RECURSIVE ParseValue(_, _)
RECURSIVE ParseElements(_, _, _)
RECURSIVE ParseMembers(_, _, _)

\* the elements of an array after "[" or ","; i is at the next element
ParseElements(s, i, acc) ==
  LET r == ParseValue(s, i)
      p == SkipSpace(s, r.pos)
  IN  IF ~r.ok THEN ParseFail
      ELSE IF CharAt(s, p) = "]" THEN ParseOk(JArr(Append(acc, r.val)), p + 1)
      ELSE IF CharAt(s, p) = "," THEN ParseElements(s, p + 1, Append(acc, r.val))
      ELSE ParseFail

\* the members of an object after "{" or ","; i is at or before the next key
ParseMembers(s, i, acc) ==
  LET k == SkipSpace(s, i)
      key == IF CharAt(s, k) = "\"" THEN ParseString(s, k) ELSE ParseFail
      c == SkipSpace(s, key.pos)
      r == IF key.ok /\ CharAt(s, c) = ":" THEN ParseValue(s, c + 1) ELSE ParseFail
      p == SkipSpace(s, r.pos)
      member == [k |-> key.val.s, v |-> r.val]
  IN  IF ~r.ok THEN ParseFail
      ELSE IF CharAt(s, p) = "}" THEN ParseOk(JObj(Append(acc, member)), p + 1)
      ELSE IF CharAt(s, p) = "," THEN ParseMembers(s, p + 1, Append(acc, member))
      ELSE ParseFail

\* one JSON value starting at or after 0-based index i
ParseValue(s, i) ==
  LET p == SkipSpace(s, i)
      c == CharAt(s, p)
  IN  IF c = "{" THEN
        (IF CharAt(s, SkipSpace(s, p + 1)) = "}"
           THEN ParseOk(JObj(<<>>), SkipSpace(s, p + 1) + 1)
           ELSE ParseMembers(s, p + 1, <<>>))
      ELSE IF c = "[" THEN
        (IF CharAt(s, SkipSpace(s, p + 1)) = "]"
           THEN ParseOk(JArr(<<>>), SkipSpace(s, p + 1) + 1)
           ELSE ParseElements(s, p + 1, <<>>))
      ELSE IF c = "\"" THEN ParseString(s, p)
      ELSE IF c = "-" \/ IsDigit(c) THEN ParseNumber(s, p)
      ELSE IF substring(s, p, p + 4) = "null" THEN ParseOk(JNull, p + 4)
      ELSE IF substring(s, p, p + 4) = "true" THEN ParseOk(JBool("true"), p + 4)
      ELSE IF substring(s, p, p + 5) = "false" THEN ParseOk(JBool("false"), p + 5)
      ELSE ParseFail

\* JSON.parse: ok = FALSE stands for the SyntaxError it throws
JSONparse(s) ==
  LET r == ParseValue(s, 0)
  IN  IF r.ok /\ SkipSpace(s, r.pos) >= Len(s) THEN [ok |-> TRUE, val |-> r.val]
      ELSE [ok |-> FALSE, val |-> JUndefined]

\* property access data.name on a parsed value that is not null
GetProp(data, name) ==
  LET hits == {i \in 1..Len(data.items) : data.items[i].k = name}
  IN  IF data.t # "obj" \/ hits = {} THEN JUndefined
      ELSE data.items[SetMax(hits)].v

\* ToBoolean
Truthy(v) ==
  CASE v.t \in {"undefined", "null"} -> FALSE
    [] v.t = "bool" -> v.s = "true"
    [] v.t = "num" -> v.s \notin {"0", "-0"}
    [] v.t = "str" -> v.s # ""
    [] OTHER -> TRUE

RECURSIVE JsString(_)
RECURSIVE JoinElements(_)

\* Array.prototype.join(","): null and undefined elements give ""
JoinElements(elems) ==
  IF elems = <<>> THEN ""
  ELSE LET h == IF Head(elems).t \in {"undefined", "null"} THEN "" ELSE JsString(Head(elems))
       IN  IF Len(elems) = 1 THEN h ELSE h \o "," \o JoinElements(Tail(elems))

\* JsString, as applied by new Error(value) to its message argument
JsString(v) ==
  CASE v.t = "str" -> v.s
    [] v.t = "num" -> (IF v.s = "-0" THEN "0" ELSE v.s)
    [] v.t = "bool" -> v.s
    [] v.t = "null" -> "null"
    [] v.t = "undefined" -> "undefined"
    [] v.t = "arr" -> JoinElements(v.items)
    [] OTHER -> "[object Object]"

-----------------------------------------------------------------------------
(* services/geminiService.ts: analyzeVideoContent, from its arguments to   *)
(* what it puts into the prompt.  An absent argument is <<>>, a present    *)
(* one <<value>>.                                                          *)

\* enum VisualStyle
Styles == {"Whiteboard", "Notebook", "Custom"}

WhiteboardDescription == "A clean, hand-drawn whiteboard style infographic. White background, black marker lines, simple doodles, red accent highlights. Professional yet playful educational drawing."

NotebookDescription == "A sketch on lined notebook paper. Blue ballpoint pen aesthetic, scribbles, doodles, handwritten text annotations. Academic and messy but legible."

DefaultCustomDescription == "A creative data visualization."

\* styleDescriptionOf without the fallback of the Custom style
styleDescriptionVerbatim(style, customStylePrompt) ==
  IF style = "Whiteboard" THEN WhiteboardDescription
  ELSE IF style = "Notebook" THEN NotebookDescription
  ELSE IF style = "Custom"
    THEN IF customStylePrompt # <<>> THEN customStylePrompt[1] ELSE ""
  ELSE ""

\* lines 34-45: let styleDescription = ""; switch (style) { ... }
styleDescriptionOf(style, customStylePrompt) ==
  IF style = "Whiteboard" THEN WhiteboardDescription
  ELSE IF style = "Notebook" THEN NotebookDescription
  ELSE IF style = "Custom"
    THEN IF customStylePrompt # <<>> /\ customStylePrompt[1] # ""
           THEN customStylePrompt[1]
           ELSE DefaultCustomDescription
  ELSE ""

RECURSIVE split(_, _)
\* String.prototype.split with a non-empty separator
split(s, sep) ==
  IF indexOf(s, sep) = -1 THEN <<s>>
  ELSE <<substring(s, 0, indexOf(s, sep))>>
         \o split(substring(s, indexOf(s, sep) + Len(sep), Len(s)), sep)

\* pieces[1] of JavaScript: undefined when the list has one piece only
SecondPiece(pieces) == IF Len(pieces) >= 2 THEN <<pieces[2]>> ELSE <<>>

\* piece.split(stop)[0]; split of undefined throws a TypeError, which the
\* catch block of lines 55-57 swallows and which leaves videoId empty
FirstPieceOf(piece, stop) ==
  IF piece = <<>> THEN [videoId |-> "", caught |-> TRUE]
  ELSE [videoId |-> split(piece[1], stop)[1], caught |-> FALSE]

\* videoUrl.split(marker)[1].split(stop)[0]
IdAfter(videoUrl, marker, stop) ==
  FirstPieceOf(SecondPiece(split(videoUrl, marker)), stop)

\* lines 48-57: the video identifier, and whether the catch block was entered
extractVideoId(videoUrl) ==
  IF includes(videoUrl, "v=") THEN IdAfter(videoUrl, "v=", "&")
  ELSE IF includes(videoUrl, "youtu.be/") THEN IdAfter(videoUrl, "youtu.be/", "?")
  ELSE [videoId |-> "", caught |-> FALSE]

\* line 59
searchHintOf(videoId) == IF videoId # "" THEN "(Video ID: " \o videoId \o ")" ELSE ""

\* lines 34-59: what analyzeVideoContent puts into the prompt of lines 61-88
PromptParts(extraction, styleDescription) ==
  [videoId |-> extraction.videoId, caught |-> extraction.caught,
   searchHint |-> searchHintOf(extraction.videoId),
   styleDescription |-> styleDescription]

buildPrompt(url, style, customStylePrompt) ==
  PromptParts(extractVideoId(url), styleDescriptionOf(style, customStylePrompt))

\* number of pieces a URL given to analyzeVideoContent is made of
MaxPieces == 3

UrlPieces == {"v=", "&", "youtu.be/", "?", "A", "B"}

RECURSIVE PiecedUrls(_)
\* the concatenations of at most n pieces
PiecedUrls(n) ==
  IF n = 0 THEN {""}
  ELSE PiecedUrls(n - 1) \cup {piece \o rest : piece \in UrlPieces, rest \in PiecedUrls(n - 1)}

VideoUrls ==
  PiecedUrls(MaxPieces)
  \cup {"https://www.youtube.com/watch?v=ABC123&t=5", "https://youtu.be/XYZ789?foo=1",
        "https://example.com/video"}

\* the custom text given with a style: absent, empty, blank, or a description
CustomTexts == {<<>>, <<"">>, <<" ">>, <<"neon ink">>}

-----------------------------------------------------------------------------
(* services/geminiService.ts: analyzeVideoContent, from the reply of the    *)
(* text model to the AnalysisResponse or the thrown Error                   *)

NoResponseMessage == "No response from AI analysis."

IncompleteDataMessage == "Incomplete analysis data received."

InvalidFormatMessage == "AI analysis failed to produce valid data. The video might be inaccessible or the response format was invalid."

\* message of the SyntaxError of JSON.parse; V8, SpiderMonkey and
\* JavaScriptCore all name "JSON" in it
SyntaxErrorMessage == "Unexpected token in JSON"

\* message of the TypeError of reading a property of null
NullTypeErrorMessage == "Cannot read properties of null (reading 'error')"

RefusalPhrases == {"unavailable", "restricted", "cannot access", "unable to access", "sorry"}

\* A TLA+ string literal cannot hold the backquote character: the model
\* writes ^ for it, and no reply of the model uses ^ for anything else.
Fence == "^^^"

NoMatch == [found |-> FALSE, from |-> 0, to |-> 0]

\* the closing fence ^^^ stands at 0-based index f of s
FenceAt(s, f) == substring(s, f, f + 3) = Fence

\* where (\{[\s\S]*?\}) may end when it starts at q: a "}" followed by \s*^^^
FenceEnds(s, q) ==
  {r \in (q + 1)..(Len(s) - 1) : CharAt(s, r) = "}" /\ FenceAt(s, SkipSpace(s, r + 1))}

\* where the capture starts when the match starts at i: after ^^^(?:json)?\s*
FenceBodyStart(s, i) ==
  SkipSpace(s, IF substring(s, i + 3, i + 7) = "json" THEN i + 7 ELSE i + 3)

\* the lazy capture from q, for a match that starts at i
FenceCapture(s, i, q) ==
  IF FenceAt(s, i) /\ CharAt(s, q) = "{" /\ FenceEnds(s, q) # {}
    THEN [found |-> TRUE, from |-> q, to |-> SetMin(FenceEnds(s, q)) + 1]
    ELSE NoMatch

\* the capture of /^^^(?:json)?\s*(\{[\s\S]*?\})\s*^^^/ when the match starts
\* at 0-based index i of s: the captured text is substring(s, from, to)
FenceMatchAt(s, i) == FenceCapture(s, i, FenceBodyStart(s, i))

FirstFenceMatch(s, starts) ==
  IF starts = {} THEN NoMatch ELSE FenceMatchAt(s, SetMin(starts))

\* jsonStr.match(/^^^(?:json)?\s*(\{[\s\S]*?\})\s*^^^/): the leftmost match
markdownMatch(s) ==
  FirstFenceMatch(s, {i \in 0..(Len(s) - 1) : FenceMatchAt(s, i).found})

\* CandidateFrom looking for the braces first and for the fenced block after
CandidateFromBraces(jsonStr, m, startIndex, endIndex) ==
  IF startIndex # -1 /\ endIndex # -1 /\ endIndex > startIndex
    THEN substring(jsonStr, startIndex, endIndex + 1)
  ELSE IF m.found THEN substring(jsonStr, m.from, m.to)
  ELSE jsonStr

\* lines 112-122: the candidate, given the match and the two brace indexes
CandidateFrom(jsonStr, m, startIndex, endIndex) ==
  IF m.found THEN substring(jsonStr, m.from, m.to)
  ELSE IF startIndex # -1 /\ endIndex # -1 /\ endIndex > startIndex
    THEN substring(jsonStr, startIndex, endIndex + 1)
  ELSE jsonStr

\* lines 111-122 on the trimmed text
CandidateOf(jsonStr) ==
  CandidateFrom(jsonStr, markdownMatch(jsonStr), indexOf(jsonStr, "{"),
                lastIndexOf(jsonStr, "}"))

\* lines 107-122: the candidate JSON string
ExtractCandidate(text) == CandidateOf(trim(text))

Returned(data) == [ok |-> TRUE, data |-> data, message |-> ""]

Thrown(message) == [ok |-> FALSE, data |-> JUndefined, message |-> message]

\* lines 127-133 on a parsed value that is not null
CheckFields(data, errorField, summary, imagePrompt) ==
  IF Truthy(errorField) THEN Thrown(JsString(errorField))
  ELSE IF ~Truthy(summary) \/ ~Truthy(imagePrompt) THEN Thrown(IncompleteDataMessage)
  ELSE Returned(data)

\* lines 127-136: reading data.error of null throws a TypeError
CheckData(data) ==
  IF data.t = "null" THEN Thrown(NullTypeErrorMessage)
  ELSE CheckFields(data, GetProp(data, "error"), GetProp(data, "summary"),
                   GetProp(data, "imagePrompt"))

\* lines 125-136 once JSON.parse has returned or thrown
CheckParsed(parsed) ==
  IF ~parsed.ok THEN Thrown(SyntaxErrorMessage) ELSE CheckData(parsed.val)

\* lines 125-136: the body of the try block
TryParse(jsonStr) == CheckParsed(JSONparse(jsonStr))

\* lines 141-148: the refusal phrases in the lowercased text
HasRefusalPhrase(lowerText) ==
  \E phrase \in RefusalPhrases : includes(lowerText, phrase)

LooksLikeRefusal(text) == HasRefusalPhrase(toLowerCase(text))

\* CatchParse with the refusal surfaced from the trimmed text (jsonStr as it
\* stands before the extraction) instead of the raw text
CatchParseTrimmed(text, e) ==
  IF LooksLikeRefusal(text) THEN Thrown(trim(text))
  ELSE IF e.message # "" /\ ~includes(e.message, "JSON") THEN e
  ELSE Thrown(InvalidFormatMessage)

\* lines 137-158: the catch block, e is what the try block threw
CatchParse(text, e) ==
  IF LooksLikeRefusal(text) THEN Thrown(text)
  ELSE IF e.message # "" /\ ~includes(e.message, "JSON") THEN e
  ELSE Thrown(InvalidFormatMessage)

\* the try block returned t or threw it into the catch block
SettleParse(text, t) == IF t.ok THEN t ELSE CatchParse(text, t)

\* lines 106-158 on a non-empty text
ParseReply(text) == SettleParse(text, TryParse(ExtractCandidate(text)))

\* lines 103-158; response.text is <<>> when undefined, <<text>> otherwise
analyzeVideoContent(responseText) ==
  IF responseText = <<>> \/ responseText[1] = "" THEN Thrown(NoResponseMessage)
  ELSE ParseReply(responseText[1])

-----------------------------------------------------------------------------
(* Replies of the text model                                               *)

\* number of pieces of prose or fencing on each side of the body of a reply
MaxWrap == 1

Wrappers == {"Sorry, ", "^^^json\n", "\n^^^", "Note {x} ", " "}

Bodies ==
  { "",
    "{\"error\":\"video not found\"}",
    "{\"error\":\"Video unavailable\"}",
    "{\"error\":\"bad JSON id\"}",
    "{\"error\":5}",
    "{\"error\":[]}",
    "{\"error\":\"\"}",
    "{\"error\":\"e\",\"summary\":\"s\",\"imagePrompt\":\"p\"}",
    "{\"summary\":\"s\",\"imagePrompt\":\"p\"}",
    "{\"videoTitle\":\"t\", \"summary\":\"s\", \"imagePrompt\":\"p\"}",
    "{\"summary\":\"s\"}",
    "{}",
    "null",
    "5",
    "[]",
    "\"sorry\"",
    "{\"summary\":",
    "The video is restricted",
    "I am unable to access it",
    "Here is the summary",
    "^^^json\n{\"summary\":\"s\",\"imagePrompt\":\"p\"}\n^^^",
    "^^^{\"error\":\"video not found\"} ^^^",
    "} and {" }

RECURSIVE Wraps(_)
\* the concatenations of at most n wrappers
Wraps(n) ==
  IF n = 0 THEN {""}
  ELSE Wraps(n - 1) \cup {w \o rest : w \in Wrappers, rest \in Wraps(n - 1)}

Replies == {pre \o body \o post : pre \in Wraps(MaxWrap), body \in Bodies, post \in Wraps(MaxWrap)}

-----------------------------------------------------------------------------
(* services/geminiService.ts: generateInfographic, from the response of    *)
(* the image model to the data URI or the thrown Error.  An optional field *)
(* is <<>> when undefined and <<value>> otherwise.                         *)

NoImageDataMessage == "No image data found in response."

UndefinedContentMessage == "Cannot read properties of undefined (reading 'content')"

UndefinedPartsMessage == "Cannot read properties of undefined (reading 'parts')"

DataUriPrefix == "data:image/png;base64,"

TextPart == [inlineData |-> <<>>]

InlinePart(data) == [inlineData |-> <<[data |-> data]>>]

Candidate(parts) == [content |-> <<[parts |-> <<parts>>]>>]

ImageResponse(candidates) == [candidates |-> <<candidates>>]

\* FirstInlinePart taking the last part with inline data
FirstInlinePartLast(parts) ==
  LET hits == {i \in 1..Len(parts) :
                 /\ parts[i].inlineData # <<>>
                 /\ parts[i].inlineData[1].data # ""}
  IN  IF hits = {} THEN 0 ELSE SetMax(hits)

\* lines 182-186: the first part with non-empty inline data, 0 when none
FirstInlinePart(parts) ==
  LET hits == {i \in 1..Len(parts) :
                 /\ parts[i].inlineData # <<>>
                 /\ parts[i].inlineData[1].data # ""}
  IN  IF hits = {} THEN 0 ELSE SetMin(hits)

\* lines 182-189: the loop over the parts and the throw after it
ScanParts(parts) ==
  IF FirstInlinePart(parts) = 0 THEN Thrown(NoImageDataMessage)
  ELSE Returned(JStr(DataUriPrefix \o parts[FirstInlinePart(parts)].inlineData[1].data))

\* lines 180-189
generateInfographic(response) ==
  IF response.candidates = <<>> THEN Thrown(NoImageDataMessage)
  ELSE IF response.candidates[1] = <<>> THEN Thrown(UndefinedContentMessage)
  ELSE IF response.candidates[1][1].content = <<>> THEN Thrown(UndefinedPartsMessage)
  ELSE IF response.candidates[1][1].content[1].parts = <<>> THEN Thrown(NoImageDataMessage)
  ELSE ScanParts(response.candidates[1][1].content[1].parts[1])

-----------------------------------------------------------------------------
(* The two App components                                                  *)

\* const FREE_TIER_LIMIT = 3
FREE_TIER_LIMIT == 3

EmptyInputMessage == "Please enter a valid YouTube URL."

KeySelectionFailedMessage == "Could not select API key. Please try again."

FallbackMessage == "Something went wrong. Please try again."

\* generate actions accepted in one session
MaxRequests == 2

\* key-selection dialogs opened from the key buttons and still open
MaxDialogs == 1

Variants == {"Recapio", "MindCanvas"}

\* what the user types into the URL input, which is empty at first
Urls == {" ", "https://youtu.be/XYZ789?foo=1"}

\* what the text-model call of a request settles with: a rejection of the
\* request carrying a message, or a response whose text is optional
TextSettlements ==
  {[rejected |-> TRUE, message |-> m, text |-> <<>>] : m \in {""}}
  \cup
  {[rejected |-> FALSE, message |-> "", text |-> t] :
     t \in { <<>>,
             <<"{\"videoTitle\":\"t1\",\"summary\":\"s1\",\"imagePrompt\":\"p1\"}">>,
             <<"^^^json\n{\"summary\":\"s2\",\"imagePrompt\":\"p2\"}\n^^^">>,
             <<"Sorry, I cannot access this video.">> }}

\* what the image-model call of a request settles with
ImageSettlements ==
  {[rejected |-> TRUE, message |-> m, response |-> ImageResponse(<<>>)] : m \in {"Failed to fetch"}}
  \cup
  {[rejected |-> FALSE, message |-> "", response |-> r] :
     r \in { ImageResponse(<<Candidate(<<TextPart, InlinePart("QQ==")>>)>>),
             ImageResponse(<<Candidate(<<TextPart>>)>>) }}

\* length of the parts list of a response of the image model
MaxParts == 3

PartKinds == {TextPart, InlinePart(""), InlinePart("QQ=="), InlinePart("Qg==")}

RECURSIVE PartLists(_)
\* the parts lists of at most n parts
PartLists(n) ==
  IF n = 0 THEN {<<>>}
  ELSE PartLists(n - 1) \cup {<<part>> \o rest : part \in PartKinds, rest \in PartLists(n - 1)}

\* responses of the image model: candidates undefined, an empty candidates
\* list, a first candidate without content, a content without parts, and a
\* first candidate with a parts list
ImageResponses ==
  { [candidates |-> <<>>],
    ImageResponse(<<>>),
    ImageResponse(<<[content |-> <<>>]>>),
    ImageResponse(<<[content |-> <<[parts |-> <<>>]>>]>>) }
  \cup {ImageResponse(<<Candidate(parts)>>) : parts \in PartLists(MaxParts)}

-----------------------------------------------------------------------------
VARIABLES
  variant,           \* which App component is mounted
  aistudio,          \* the host provides window.aistudio
  mounted,           \* the effects of the first render have run
  keyCheck,          \* initKeyCheck: "idle", "pending", "done", or "failed" (the check threw)
  url,               \* useState('')
  style,             \* useState(VisualStyle.WHITEBOARD)
  status,            \* useState(AppStatus.IDLE)
  result,            \* useState(null): <<>> or <<GenerationResult>>
  error,             \* useState(null): <<>> or <<message>>
  keySelected,       \* useState(false)
  generationsUsed,   \* useState(0), MindCanvas
  showUpgradeModal,  \* useState(false), MindCanvas
  keyDialogs,        \* handleKeySelection calls of the key buttons awaiting openSelectKey
  requests,          \* the handleGenerate calls that passed the checks, in order
  inflight,          \* model calls issued and not yet settled: [req, model]
  resultOwner,       \* the request whose setResult wrote result, 0 when null
  settled,           \* log of the settled model calls: [req, model, ok, message]
  reply,             \* the reply given to analyzeVideoContent on its own
  outcome,           \* what analyzeVideoContent settled with: <<>> or <<outcome>>
  candidate,         \* jsonStr as given to JSON.parse: <<>> or <<jsonStr>>
  response,          \* the response given to generateInfographic on its own
  image,             \* what generateInfographic settled with: <<>> or <<outcome>>
  videoUrl,          \* analyzeVideoContent on its own: its first argument
  customStylePrompt, \* its third argument: <<>> when absent, <<text>> otherwise
  prompt             \* what it puts into the prompt: <<>> or <<[videoId, styleDescription]>>

appVars == <<variant, aistudio, mounted, keyCheck, url, style, status, result, error,
             keySelected, generationsUsed, showUpgradeModal, keyDialogs,
             requests, inflight, resultOwner, settled>>

serviceVars == <<reply, outcome, candidate, response, image, videoUrl,
                 customStylePrompt, prompt>>

vars == <<appVars, serviceVars>>

\* the state after construction, but for the style
InitAppState ==
  /\ variant \in Variants
  /\ aistudio \in BOOLEAN
  /\ mounted = FALSE
  /\ keyCheck = "idle"
  /\ url = ""
  /\ status = "IDLE"
  /\ result = <<>>
  /\ error = <<>>
  /\ keySelected = FALSE
  /\ generationsUsed = 0
  /\ showUpgradeModal = FALSE
  /\ keyDialogs = 0
  /\ requests = <<>>
  /\ inflight = {}
  /\ resultOwner = 0
  /\ settled = {}

InitApp ==
  /\ InitAppState
  /\ style = "Whiteboard"

-----------------------------------------------------------------------------
(* Effects of the first render                                             *)

\* checkApiKeySelection without a host: the fallback of line 14
checkApiKeySelectionFallback == TRUE

\* The effects run once after the first render: the saved generation count
\* is loaded (MindCanvas) and initKeyCheck calls checkApiKeySelection, which
\* awaits hasSelectedApiKey() when the host provides it and otherwise
\* returns its fallback before any event can be handled.
Mount ==
  /\ ~mounted
  /\ mounted' = TRUE
  /\ \E saved \in 0..FREE_TIER_LIMIT :
       generationsUsed' = IF variant = "MindCanvas" THEN saved ELSE generationsUsed
  /\ IF aistudio
       THEN keyCheck' = "pending" /\ UNCHANGED keySelected
       ELSE keyCheck' = "done" /\ keySelected' = checkApiKeySelectionFallback
  /\ UNCHANGED <<variant, aistudio, style, url, status, result, error, showUpgradeModal,
                 keyDialogs, requests, inflight, resultOwner, settled, serviceVars>>

\* InitKeyCheckSettle failing closed: a check that throws leaves no key selected
InitKeyCheckSettleClosed ==
  /\ keyCheck = "pending"
  /\ \E hasKey \in {"true", "false", "rejected"} :
       /\ keyCheck' = IF hasKey = "rejected" THEN "failed" ELSE "done"
       /\ keySelected' = (hasKey = "true")
  /\ UNCHANGED <<variant, aistudio, style, mounted, url, status, result, error,
                 generationsUsed, showUpgradeModal, keyDialogs, requests,
                 inflight, resultOwner, settled, serviceVars>>

\* initKeyCheck: hasSelectedApiKey() resolves with hasKey, or rejects
InitKeyCheckSettle ==
  /\ keyCheck = "pending"
  /\ \E hasKey \in {"true", "false", "rejected"} :
       /\ keyCheck' = IF hasKey = "rejected" THEN "failed" ELSE "done"
       /\ keySelected' = IF hasKey = "rejected" THEN TRUE ELSE (hasKey = "true")
  /\ UNCHANGED <<variant, aistudio, style, mounted, url, status, result, error,
                 generationsUsed, showUpgradeModal, keyDialogs, requests,
                 inflight, resultOwner, settled, serviceVars>>

\* onChange of the URL input
SetUrl ==
  /\ mounted
  /\ \E u \in Urls \ {url} : url' = u
  /\ UNCHANGED <<variant, aistudio, style, mounted, keyCheck, status, result, error,
                 keySelected, generationsUsed, showUpgradeModal, keyDialogs,
                 requests, inflight, resultOwner, settled, serviceVars>>

\* onSelect of a StyleCard
SetStyle ==
  /\ mounted
  /\ \E chosen \in Styles \ {style} : style' = chosen
  /\ UNCHANGED <<variant, aistudio, mounted, keyCheck, url, status, result, error,
                 keySelected, generationsUsed, showUpgradeModal, keyDialogs,
                 requests, inflight, resultOwner, settled, serviceVars>>

-----------------------------------------------------------------------------
(* handleKeySelection called from a key button                             *)

\* the button that calls handleKeySelection is rendered
KeyButtonShown ==
  IF variant = "Recapio" THEN ~keySelected ELSE showUpgradeModal

\* what handleKeySelection does once openApiKeySelection has resolved
KeySelectionResolved ==
  /\ keySelected' = TRUE
  /\ showUpgradeModal' = IF variant = "MindCanvas" THEN FALSE ELSE showUpgradeModal
  /\ UNCHANGED error

\* what handleKeySelection does in its catch block
KeySelectionRejected ==
  /\ error' = <<KeySelectionFailedMessage>>
  /\ UNCHANGED <<keySelected, showUpgradeModal>>

\* click on the key button: handleKeySelection runs up to its await; without
\* a host openApiKeySelection resolves at once
KeyButtonClick ==
  /\ mounted
  /\ KeyButtonShown
  /\ IF aistudio
       THEN /\ keyDialogs < MaxDialogs
            /\ keyDialogs' = keyDialogs + 1
            /\ UNCHANGED <<keySelected, showUpgradeModal, error>>
       ELSE /\ KeySelectionResolved
            /\ UNCHANGED keyDialogs
  /\ UNCHANGED <<variant, aistudio, style, mounted, keyCheck, url, status, result,
                 generationsUsed, requests, inflight, resultOwner, settled, serviceVars>>

\* openSelectKey() of a key button settles
KeyDialogSettle ==
  /\ keyDialogs > 0
  /\ keyDialogs' = keyDialogs - 1
  /\ \/ KeySelectionResolved
     \/ KeySelectionRejected
  /\ UNCHANGED <<variant, aistudio, style, mounted, keyCheck, url, status, result,
                 generationsUsed, requests, inflight, resultOwner, settled, serviceVars>>

\* MindCanvas, "Upgrade to continue generating"
OpenUpgradeModal ==
  /\ mounted
  /\ variant = "MindCanvas"
  /\ generationsUsed >= FREE_TIER_LIMIT
  /\ ~keySelected
  /\ ~showUpgradeModal
  /\ showUpgradeModal' = TRUE
  /\ UNCHANGED <<variant, aistudio, style, mounted, keyCheck, url, status, result, error,
                 keySelected, generationsUsed, keyDialogs, requests, inflight,
                 resultOwner, settled, serviceVars>>

\* MindCanvas, Cancel or a click on the backdrop of the modal
CloseUpgradeModal ==
  /\ showUpgradeModal
  /\ showUpgradeModal' = FALSE
  /\ UNCHANGED <<variant, aistudio, style, mounted, keyCheck, url, status, result, error,
                 keySelected, generationsUsed, keyDialogs, requests, inflight,
                 resultOwner, settled, serviceVars>>

-----------------------------------------------------------------------------
(* handleGenerate                                                          *)

\* a handleGenerate call that passed the checks: where it stands, whether
\* its key selection was rejected, the model calls it has issued, the
\* analysis it holds and the prompt it gave to generateInfographic (<<>>
\* until set)
NewRequest(pc) ==
  [pc |-> pc, keyRejected |-> FALSE, textCalls |-> 0, imageCalls |-> 0,
   analysis |-> <<>>, imagePromptSent |-> <<>>]

\* the Button is disabled while isLoading
ButtonEnabled == status \notin {"ANALYZING", "GENERATING"}

\* StartAnalysis keeping the result and the error of the request before
StartAnalysisKeep(reqs, id) ==
  /\ status' = "ANALYZING"
  /\ UNCHANGED <<error, result, resultOwner>>
  /\ requests' = [reqs EXCEPT ![id].pc = "analyzing", ![id].textCalls = @ + 1]
  /\ inflight' = inflight \cup {[req |-> id, model |-> "text"]}

\* setStatus(ANALYZING); setError(null); setResult(null) and the call of
\* analyzeVideoContent up to its await of the text model, for request id of reqs
StartAnalysis(reqs, id) ==
  /\ status' = "ANALYZING"
  /\ error' = <<>>
  /\ result' = <<>>
  /\ resultOwner' = 0
  /\ requests' = [reqs EXCEPT ![id].pc = "analyzing", ![id].textCalls = @ + 1]
  /\ inflight' = inflight \cup {[req |-> id, model |-> "text"]}

\* RejectEmptyUrl resetting the view as a failed request does
RejectEmptyUrlReset ==
  /\ error' = <<EmptyInputMessage>>
  /\ status' = "ERROR"
  /\ result' = <<>>
  /\ resultOwner' = 0
  /\ UNCHANGED <<requests, inflight, keySelected, showUpgradeModal>>

\* if (!url.trim()) { setError(...); return; }
RejectEmptyUrl ==
  /\ error' = <<EmptyInputMessage>>
  /\ UNCHANGED <<status, result, resultOwner, requests, inflight, keySelected,
                 showUpgradeModal>>

\* Recapio, click on the generate button: handleGenerate up to its first await
handleGenerateRecapio ==
  /\ mounted
  /\ variant = "Recapio"
  /\ ButtonEnabled
  /\ IF trim(url) = "" THEN RejectEmptyUrl
     ELSE /\ Len(requests) < MaxRequests
          /\ IF ~keySelected /\ aistudio
               THEN /\ requests' = Append(requests, NewRequest("selectKey"))
                    /\ UNCHANGED <<status, result, error, resultOwner, inflight, keySelected>>
               ELSE /\ keySelected' = TRUE
                    /\ StartAnalysis(Append(requests, NewRequest("start")), Len(requests) + 1)
          /\ UNCHANGED showUpgradeModal
  /\ UNCHANGED <<variant, aistudio, style, mounted, keyCheck, url, generationsUsed,
                 keyDialogs, settled, serviceVars>>

\* Recapio: the openSelectKey() awaited inside handleGenerate settles;
\* handleKeySelection catches a rejection and handleGenerate goes on
ResumeAfterKeySelection ==
  /\ \E id \in 1..Len(requests) :
       /\ requests[id].pc = "selectKey"
       /\ \E resolved \in BOOLEAN :
            /\ keySelected' = IF resolved THEN TRUE ELSE keySelected
            /\ StartAnalysis([requests EXCEPT ![id].keyRejected = ~resolved], id)
  /\ UNCHANGED <<variant, aistudio, style, mounted, keyCheck, url, generationsUsed,
                 showUpgradeModal, keyDialogs, settled, serviceVars>>

\* handleGenerateMindCanvas with one free generation more than the limit
handleGenerateMindCanvasLate ==
  /\ mounted
  /\ variant = "MindCanvas"
  /\ ButtonEnabled
  /\ IF trim(url) = "" THEN RejectEmptyUrl
     ELSE IF ~(generationsUsed <= FREE_TIER_LIMIT) /\ ~keySelected
       THEN /\ showUpgradeModal' = TRUE
            /\ UNCHANGED <<status, result, error, resultOwner, requests, inflight, keySelected>>
       ELSE /\ Len(requests) < MaxRequests
            /\ StartAnalysis(Append(requests, NewRequest("start")), Len(requests) + 1)
            /\ UNCHANGED <<keySelected, showUpgradeModal>>
  /\ UNCHANGED <<variant, aistudio, style, mounted, keyCheck, url, generationsUsed,
                 keyDialogs, settled, serviceVars>>

\* MindCanvas, click on the generate button: handleGenerate up to its first await
handleGenerateMindCanvas ==
  /\ mounted
  /\ variant = "MindCanvas"
  /\ ButtonEnabled
  /\ IF trim(url) = "" THEN RejectEmptyUrl
     ELSE IF ~(generationsUsed < FREE_TIER_LIMIT) /\ ~keySelected
       THEN /\ showUpgradeModal' = TRUE
            /\ UNCHANGED <<status, result, error, resultOwner, requests, inflight, keySelected>>
       ELSE /\ Len(requests) < MaxRequests
            /\ StartAnalysis(Append(requests, NewRequest("start")), Len(requests) + 1)
            /\ UNCHANGED <<keySelected, showUpgradeModal>>
  /\ UNCHANGED <<variant, aistudio, style, mounted, keyCheck, url, generationsUsed,
                 keyDialogs, settled, serviceVars>>

\* CatchGenerate without setError
CatchGenerateSilent(id, model, message) ==
  /\ UNCHANGED error
  /\ status' = "ERROR"
  /\ requests' = [requests EXCEPT ![id].pc = "error"]
  /\ inflight' = inflight \ {[req |-> id, model |-> model]}
  /\ UNCHANGED <<result, resultOwner, generationsUsed>>

\* CatchGenerate without setStatus(ERROR)
CatchGenerateNoStatus(id, model, message) ==
  /\ error' = <<IF message # "" THEN message ELSE FallbackMessage>>
  /\ UNCHANGED status
  /\ requests' = [requests EXCEPT ![id].pc = "error"]
  /\ inflight' = inflight \ {[req |-> id, model |-> model]}
  /\ UNCHANGED <<result, resultOwner, generationsUsed>>

\* CatchGenerate showing a fixed text whatever the failure says
CatchGenerateGeneric(id, model, message) ==
  /\ error' = <<FallbackMessage>>
  /\ status' = "ERROR"
  /\ requests' = [requests EXCEPT ![id].pc = "error"]
  /\ inflight' = inflight \ {[req |-> id, model |-> model]}
  /\ UNCHANGED <<result, resultOwner, generationsUsed>>

\* CatchGenerate issuing the failed call once more before it gives up
CatchGenerateRetry(id, model, message) ==
  IF model = "text" /\ requests[id].textCalls = 1
    THEN /\ requests' = [requests EXCEPT ![id].textCalls = @ + 1]
         /\ UNCHANGED <<status, error, inflight, result, resultOwner, generationsUsed>>
    ELSE /\ error' = <<IF message # "" THEN message ELSE FallbackMessage>>
         /\ status' = "ERROR"
         /\ requests' = [requests EXCEPT ![id].pc = "error"]
         /\ inflight' = inflight \ {[req |-> id, model |-> model]}
         /\ UNCHANGED <<result, resultOwner, generationsUsed>>

\* catch (err): setError(err.message || fallback); setStatus(ERROR)
CatchGenerate(id, model, message) ==
  /\ error' = <<IF message # "" THEN message ELSE FallbackMessage>>
  /\ status' = "ERROR"
  /\ requests' = [requests EXCEPT ![id].pc = "error"]
  /\ inflight' = inflight \ {[req |-> id, model |-> model]}
  /\ UNCHANGED <<result, resultOwner, generationsUsed>>

\* AfterAnalysis publishing the summary and the title as soon as the analysis
\* is there, before the image
AfterAnalysisPartial(id, o) ==
  IF o.ok
    THEN /\ status' = "GENERATING"
         /\ requests' = [requests EXCEPT
              ![id].pc = "generating",
              ![id].analysis = <<o.data>>,
              ![id].imageCalls = @ + 1,
              ![id].imagePromptSent = <<GetProp(o.data, "imagePrompt")>>]
         /\ inflight' = (inflight \ {[req |-> id, model |-> "text"]})
                          \cup {[req |-> id, model |-> "image"]}
         /\ result' = <<[imageUrl |-> "",
                         summary |-> GetProp(o.data, "summary"),
                         videoTitle |-> GetProp(o.data, "videoTitle")]>>
         /\ resultOwner' = id
         /\ UNCHANGED <<error, generationsUsed>>
    ELSE CatchGenerate(id, "text", o.message)

\* AfterAnalysis giving the summary to generateInfographic
AfterAnalysisSummary(id, o) ==
  IF o.ok
    THEN /\ status' = "GENERATING"
         /\ requests' = [requests EXCEPT
              ![id].pc = "generating",
              ![id].analysis = <<o.data>>,
              ![id].imageCalls = @ + 1,
              ![id].imagePromptSent = <<GetProp(o.data, "summary")>>]
         /\ inflight' = (inflight \ {[req |-> id, model |-> "text"]})
                          \cup {[req |-> id, model |-> "image"]}
         /\ UNCHANGED <<result, error, resultOwner, generationsUsed>>
    ELSE CatchGenerate(id, "text", o.message)

\* lines 62-67 of Recapio, 120-125 of MindCanvas: analyzeVideoContent settled
\* with o; on success handleGenerate issues the image call
AfterAnalysis(id, o) ==
  IF o.ok
    THEN /\ status' = "GENERATING"
         /\ requests' = [requests EXCEPT
              ![id].pc = "generating",
              ![id].analysis = <<o.data>>,
              ![id].imageCalls = @ + 1,
              ![id].imagePromptSent = <<GetProp(o.data, "imagePrompt")>>]
         /\ inflight' = (inflight \ {[req |-> id, model |-> "text"]})
                          \cup {[req |-> id, model |-> "image"]}
         /\ UNCHANGED <<result, error, resultOwner, generationsUsed>>
    ELSE CatchGenerate(id, "text", o.message)

\* AfterImage publishing the result without setStatus(COMPLETE)
AfterImageNoStatus(id, o, analysis) ==
  IF o.ok
    THEN /\ result' = <<[imageUrl |-> o.data.s,
                         summary |-> GetProp(analysis, "summary"),
                         videoTitle |-> GetProp(analysis, "videoTitle")]>>
         /\ resultOwner' = id
         /\ generationsUsed' = IF variant = "MindCanvas"
                                 THEN generationsUsed + 1 ELSE generationsUsed
         /\ UNCHANGED status
         /\ requests' = [requests EXCEPT ![id].pc = "complete"]
         /\ inflight' = inflight \ {[req |-> id, model |-> "image"]}
         /\ UNCHANGED error
    ELSE CatchGenerate(id, "image", o.message)

\* lines 67-74 of Recapio, 125-136 of MindCanvas: generateInfographic settled
\* with o; on success handleGenerate publishes the result
AfterImage(id, o, analysis) ==
  IF o.ok
    THEN /\ result' = <<[imageUrl |-> o.data.s,
                         summary |-> GetProp(analysis, "summary"),
                         videoTitle |-> GetProp(analysis, "videoTitle")]>>
         /\ resultOwner' = id
         /\ generationsUsed' = IF variant = "MindCanvas"
                                 THEN generationsUsed + 1 ELSE generationsUsed
         /\ status' = "COMPLETE"
         /\ requests' = [requests EXCEPT ![id].pc = "complete"]
         /\ inflight' = inflight \ {[req |-> id, model |-> "image"]}
         /\ UNCHANGED error
    ELSE CatchGenerate(id, "image", o.message)

\* the awaited call settles with o: the log records it and handleGenerate
\* goes on after its await
SettleWith(call, o) ==
  /\ settled' = settled \cup {[req |-> call.req, model |-> call.model, ok |-> o.ok,
                                message |-> o.message]}
  /\ IF call.model = "text"
       THEN AfterAnalysis(call.req, o)
       ELSE AfterImage(call.req, o, requests[call.req].analysis[1])

\* what analyzeVideoContent settles with, over the settlements of its call:
\* a rejection of the call is thrown on as it is
TextOutcomes ==
  {IF st.rejected THEN Thrown(st.message) ELSE analyzeVideoContent(st.text) :
     st \in TextSettlements}

\* what generateInfographic settles with, over the settlements of its call
ImageOutcomes ==
  {IF st.rejected THEN Thrown(st.message) ELSE generateInfographic(st.response) :
     st \in ImageSettlements}

\* the text-model call of a request settles: analyzeVideoContent returns the
\* analysis or throws
TextSettle ==
  /\ \E call \in inflight :
       /\ call.model = "text"
       /\ \E o \in TextOutcomes : SettleWith(call, o)
  /\ UNCHANGED <<variant, aistudio, style, mounted, keyCheck, url, keySelected,
                 showUpgradeModal, keyDialogs, serviceVars>>

\* the image-model call of a request settles: generateInfographic returns the
\* data URI or throws
ImageSettle ==
  /\ \E call \in inflight :
       /\ call.model = "image"
       /\ \E o \in ImageOutcomes : SettleWith(call, o)
  /\ UNCHANGED <<variant, aistudio, style, mounted, keyCheck, url, keySelected,
                 showUpgradeModal, keyDialogs, serviceVars>>

-----------------------------------------------------------------------------
\* the service functions are not called on their own
InitService ==
  /\ reply = <<>>
  /\ outcome = <<>>
  /\ candidate = <<>>
  /\ response = <<>>
  /\ image = <<>>
  /\ videoUrl = ""
  /\ customStylePrompt = <<>>
  /\ prompt = <<>>

Init ==
  /\ InitApp
  /\ InitService

Next ==
  \/ Mount
  \/ InitKeyCheckSettle
  \/ SetUrl
  \/ SetStyle
  \/ KeyButtonClick
  \/ KeyDialogSettle
  \/ OpenUpgradeModal
  \/ CloseUpgradeModal
  \/ handleGenerateRecapio
  \/ ResumeAfterKeySelection
  \/ handleGenerateMindCanvas
  \/ TextSettle
  \/ ImageSettle

Spec == Init /\ [][Next]_vars

\* every model call settles: the service awaits both calls without a timeout,
\* and a response or a rejection of the request ends the await
SpecLive == Spec /\ WF_vars(TextSettle) /\ WF_vars(ImageSettle)

-----------------------------------------------------------------------------
(* analyzeVideoContent on its own, over the replies of the text model      *)

InitParse ==
  /\ InitApp
  /\ variant = "Recapio"
  /\ aistudio = FALSE
  /\ reply \in {<<>>} \cup {<<r>> : r \in Replies}
  /\ outcome = <<>>
  /\ candidate = <<>>
  /\ response = <<>>
  /\ image = <<>>
  /\ videoUrl = ""
  /\ customStylePrompt = <<>>
  /\ prompt = <<>>

\* the text model has replied and analyzeVideoContent settles
Analyze ==
  /\ outcome = <<>>
  /\ outcome' = <<analyzeVideoContent(reply)>>
  /\ candidate' = IF reply = <<>> \/ reply[1] = "" THEN <<>>
                  ELSE <<ExtractCandidate(reply[1])>>
  /\ UNCHANGED <<reply, response, image, videoUrl, customStylePrompt, prompt, appVars>>

NextParse == Analyze

SpecParse == InitParse /\ [][NextParse]_vars

-----------------------------------------------------------------------------
(* analyzeVideoContent on its own, from its arguments to the prompt        *)

InitPrompt ==
  /\ InitAppState
  /\ variant = "Recapio"
  /\ aistudio = FALSE
  /\ style \in Styles
  /\ reply = <<>>
  /\ outcome = <<>>
  /\ candidate = <<>>
  /\ response = <<>>
  /\ image = <<>>
  /\ videoUrl \in VideoUrls
  /\ customStylePrompt \in CustomTexts
  /\ prompt = <<>>

\* analyzeVideoContent(videoUrl, style, customStylePrompt) up to its prompt
BuildPrompt ==
  /\ prompt = <<>>
  /\ prompt' = <<buildPrompt(videoUrl, style, customStylePrompt)>>
  /\ UNCHANGED <<reply, outcome, candidate, response, image, videoUrl,
                 customStylePrompt, appVars>>

NextPrompt == BuildPrompt

SpecPrompt == InitPrompt /\ [][NextPrompt]_vars

-----------------------------------------------------------------------------
(* generateInfographic on its own, over the responses of the image model   *)

InitImage ==
  /\ InitApp
  /\ variant = "Recapio"
  /\ aistudio = FALSE
  /\ reply = <<>>
  /\ outcome = <<>>
  /\ candidate = <<>>
  /\ response \in {<<r>> : r \in ImageResponses}
  /\ image = <<>>
  /\ videoUrl = ""
  /\ customStylePrompt = <<>>
  /\ prompt = <<>>

\* the image model has responded and generateInfographic settles
Synthesize ==
  /\ image = <<>>
  /\ image' = <<generateInfographic(response[1])>>
  /\ UNCHANGED <<reply, outcome, candidate, response, videoUrl, customStylePrompt,
                 prompt, appVars>>

NextImage == Synthesize

SpecImage == InitImage /\ [][NextImage]_vars

-----------------------------------------------------------------------------
(* Properties of the request lifecycle (Spec)                              *)

Requests == 1..Len(requests)

\* the request has been accepted and has reached neither Complete nor Error
InFlight(id) == requests[id].pc \in {"selectKey", "analyzing", "generating"}

CallsOf(id, calls) == {c \in calls : c.req = id}

AllowedStatusSteps ==
  { <<"IDLE", "ANALYZING">>, <<"COMPLETE", "ANALYZING">>, <<"ERROR", "ANALYZING">>,
    <<"ANALYZING", "GENERATING">>, <<"GENERATING", "COMPLETE">>,
    <<"ANALYZING", "ERROR">>, <<"GENERATING", "ERROR">> }

\* in this step a generate action starts its analysis
GenerateActionStep ==
  \E id \in 1..Len(requests') :
    /\ requests'[id].pc = "analyzing"
    /\ id > Len(requests) \/ requests[id].pc = "selectKey"

\* C1: status only changes along Idle -> Analyzing -> Generating -> Complete,
\* Error is entered only from Analyzing or Generating, and only a generate
\* action moves Idle, Complete or Error to Analyzing; Complete and Error never
\* move to Generating or Complete.
StatusLifecycle ==
  [][status' # status =>
       /\ <<status, status'>> \in AllowedStatusSteps
       /\ status' = "ANALYZING" => GenerateActionStep]_vars

\* C2: result is non-null only if analyzeVideoContent and generateInfographic
\* both returned for the request that wrote it; no request whose image step
\* failed or has not returned has its summary or title in result.
ResultOnlyAfterBothSteps ==
  /\ result # <<>> =>
       /\ resultOwner \in Requests
       /\ \A model \in {"text", "image"} :
            \E s \in settled : s.req = resultOwner /\ s.model = model /\ s.ok
       /\ result[1].summary = GetProp(requests[resultOwner].analysis[1], "summary")
       /\ result[1].videoTitle = GetProp(requests[resultOwner].analysis[1], "videoTitle")
  /\ \A id \in Requests :
       (~\E s \in settled : s.req = id /\ s.model = "image" /\ s.ok) => resultOwner # id

ResultPublished == result # <<>> /\ status = "COMPLETE" /\ resultOwner \in Requests

\* C3: at most one generate request is in flight at any time, from the
\* accepted click to Complete or Error, in both App variants.
OneRequestInFlight == Cardinality({id \in Requests : InFlight(id)}) <= 1

\* C4: the image call of a generate action is issued only after its text call
\* has returned successfully, with the imagePrompt of that analysis, and the
\* two calls of one action never overlap.
ImageCallAfterAnalysis ==
  \A id \in Requests :
    /\ requests[id].imageCalls > 0 =>
         /\ \E s \in settled : s.req = id /\ s.model = "text" /\ s.ok
         /\ requests[id].analysis # <<>>
         /\ requests[id].imagePromptSent =
              <<GetProp(requests[id].analysis[1], "imagePrompt")>>
    /\ Cardinality(CallsOf(id, inflight)) <= 1

ImageCallIssued ==
  \E id \in Requests :
    /\ [req |-> id, model |-> "image"] \in inflight
    /\ requests[id].imagePromptSent = <<JStr("p1")>>

\* C5: a failure of either step aborts the flow: no image call after a failed
\* analysis, and the request ends with status Error, a non-null error message,
\* no call in flight and no result of its own.
FailureAborts ==
  [][\A s \in settled' :
       ~s.ok =>
         /\ requests'[s.req].pc = "error"
         /\ resultOwner' # s.req
         /\ CallsOf(s.req, inflight') = {}
         /\ s.model = "text" => requests'[s.req].imageCalls = 0
         /\ s \notin settled => status' = "ERROR" /\ error' # <<>>]_vars

StepFailed ==
  /\ status = "ERROR"
  /\ \E s \in settled : ~s.ok /\ s.model = "text"
  /\ \E s \in settled : ~s.ok /\ s.model = "image"

\* C6: no automatic retry: a generate action issues at most one text call and
\* at most one image call, and a request that ended in Error issues no further
\* call; a call after Error belongs to another generate action.
NoAutomaticRetry ==
  [][\A id \in 1..Len(requests') :
       /\ requests'[id].textCalls <= 1
       /\ requests'[id].imageCalls <= 1
       /\ (id <= Len(requests) /\ requests[id].pc = "error") =>
            /\ requests'[id] = requests[id]
            /\ CallsOf(id, inflight') = {}]_vars

CallAfterError ==
  \E id \in Requests, next \in Requests :
    /\ requests[id].pc = "error"
    /\ next > id
    /\ requests[next].textCalls = 1

\* C7 as claimed: the error shown after a failure is the message of the
\* failure, for every message, the empty one included.
ErrorShownVerbatim ==
  [][\A s \in settled' \ settled : ~s.ok => error' = <<s.message>>]_vars

\* C7 as amended: the error shown after a failure is the message of the
\* failure when it is not empty, and the fallback text when it is.
ErrorShownVerbatimOrFallback ==
  [][\A s \in settled' \ settled :
       ~s.ok =>
         /\ status' = "ERROR"
         /\ s.message # "" => error' = <<s.message>>
         /\ s.message = "" => error' = <<FallbackMessage>>]_vars

FailureMessageShown ==
  /\ status = "ERROR"
  /\ \E s \in settled : ~s.ok /\ s.message # "" /\ error = <<s.message>>

Analyzing(id) == id <= Len(requests) /\ requests[id].pc = "analyzing"

Completed(id) == id <= Len(requests) /\ requests[id].pc = "complete"

CallFailed(id) == \E s \in settled : s.req = id /\ ~s.ok

\* in this step request id issues its text call
StartsAnalysis(id) ==
  /\ requests'[id].pc = "analyzing"
  /\ id > Len(requests) \/ requests[id].pc = "selectKey"

\* in this step request id moves to pc
MovesTo(id, pc) ==
  /\ id <= Len(requests)
  /\ requests[id].pc # pc
  /\ requests'[id].pc = pc

\* C14: a request accepted under the Whiteboard style whose calls both succeed
\* reaches Complete (every request that has issued its text call ends in
\* Complete unless one of its calls fails), its steps set Analyzing, then
\* Generating, then Complete, and the result published with Complete has a
\* PNG data URI and the summary and the title of the analysis.
GoodRepliesComplete ==
  /\ \A id \in 1..MaxRequests :
       (Analyzing(id) /\ style = "Whiteboard") ~> (Completed(id) \/ CallFailed(id))
  /\ [][\A id \in 1..Len(requests') :
          /\ StartsAnalysis(id) => status' = "ANALYZING"
          /\ MovesTo(id, "generating") =>
               requests[id].pc = "analyzing" /\ status' = "GENERATING"
          /\ MovesTo(id, "complete") =>
               /\ requests[id].pc = "generating"
               /\ status' = "COMPLETE"
               /\ result' # <<>>
               /\ substring(result'[1].imageUrl, 0, Len("data:image/png;base64,"))
                    = "data:image/png;base64,"
               /\ result'[1].summary = GetProp(requests[id].analysis[1], "summary")
               /\ result'[1].videoTitle = GetProp(requests[id].analysis[1], "videoTitle")]_vars

WhiteboardComplete ==
  /\ status = "COMPLETE"
  /\ style = "Whiteboard"
  /\ trim(url) # ""
  /\ resultOwner \in Requests
  /\ result = <<[imageUrl |-> "data:image/png;base64,QQ==", summary |-> JStr("s1"),
                 videoTitle |-> JStr("t1")]>>

\* C15: when the key selection of a generate action is rejected, the message
\* of the failed selection is shown, keySelected is left as it was, and the
\* generate action issues no model call.
KeySelectionFailureTerminal ==
  [][\A id \in 1..Len(requests') :
       (requests'[id].keyRejected /\ (id > Len(requests) \/ ~requests[id].keyRejected)) =>
         /\ error' = <<"Could not select API key. Please try again.">>
         /\ keySelected' = keySelected
         /\ requests'[id].textCalls = 0
         /\ CallsOf(id, inflight') = {}]_vars

\* C16: the credential check fails open: without a host the check yields true,
\* a check that throws sets keySelected to true, and neither shows an error,
\* changes the status or opens the upgrade modal.
CredentialCheckFailsOpen ==
  [][keyCheck' # keyCheck =>
       /\ ~aistudio => keySelected'
       /\ keyCheck' = "failed" => keySelected'
       /\ (~aistudio \/ keyCheck' = "failed") =>
            /\ error' = error
            /\ status' = status
            /\ showUpgradeModal' = showUpgradeModal]_vars

CheckFailedOpen ==
  /\ keyCheck = "failed"
  /\ keySelected
  /\ error = <<>>
  /\ keyDialogs = 0
  /\ Analyzing(1)

\* C19: a generate action on an empty or blank URL shows the EmptyInput
\* message, issues no model call and no key-selection call, accepts no
\* request, and leaves status, result and keySelected as they were.
EmptyUrlRejected ==
  [][((handleGenerateRecapio \/ handleGenerateMindCanvas) /\ trim(url) = "") =>
       /\ error' = <<"Please enter a valid YouTube URL.">>
       /\ UNCHANGED <<status, result, keySelected, requests, inflight, keyDialogs,
                      settled, showUpgradeModal, generationsUsed>>]_vars

BlankUrlAfterComplete ==
  /\ url = " "
  /\ error = <<"Please enter a valid YouTube URL.">>
  /\ status = "COMPLETE"
  /\ result # <<>>

\* C20: result changes only as a whole: it becomes non-null only when the
\* image call of a request returns, and then its image, summary and title are
\* those of that one request; and the step in which a request issues its text
\* call leaves neither a result nor an error of the request before.
ResultReplacedWholesale ==
  [][/\ (result' # result /\ result' # <<>>) =>
          \E s \in settled' \ settled :
            /\ s.model = "image"
            /\ s.ok
            /\ resultOwner' = s.req
            /\ requests'[s.req].pc = "complete"
            /\ result'[1].summary = GetProp(requests'[s.req].analysis[1], "summary")
            /\ result'[1].videoTitle = GetProp(requests'[s.req].analysis[1], "videoTitle")
            /\ result'[1].imageUrl \in {"data:image/png;base64,QQ=="}
     /\ \A id \in 1..Len(requests') :
          StartsAnalysis(id) => result' = <<>> /\ error' = <<>>]_vars

PreviousResultCleared ==
  /\ Completed(1)
  /\ Analyzing(2)
  /\ result = <<>>
  /\ error = <<>>

\* C21 as claimed: Error goes with an error and no result, Complete with a
\* result and no error, Analyzing and Generating with neither.
VisibleStateConsistent ==
  /\ status = "ERROR" => error # <<>> /\ result = <<>>
  /\ status = "COMPLETE" => result # <<>> /\ error = <<>>
  /\ status \in {"ANALYZING", "GENERATING"} => result = <<>> /\ error = <<>>

\* C21 as amended: Error goes with an error and Complete with a result, in
\* both variants; in MindCanvas there is no result in Error, Analyzing and
\* Generating.  An error may stand beside any status.
VisibleStateConsistentWhereHeld ==
  /\ status = "ERROR" => error # <<>>
  /\ status = "COMPLETE" => result # <<>>
  /\ variant = "MindCanvas" =>
       (status \in {"ERROR", "ANALYZING", "GENERATING"} => result = <<>>)

ErrorBesideResult ==
  /\ status = "COMPLETE"
  /\ result # <<>>
  /\ error # <<>>
  /\ inflight = {}
  /\ \A id \in Requests : ~InFlight(id)

\* C22: keySelected never goes from true to false, whatever the order in
\* which the initial check and the key selections settle.
KeySelectedMonotonic == [][keySelected => keySelected']_vars

\* in this step the free-tier App turns a generate action away
TurnedAway ==
  /\ handleGenerateMindCanvas
  /\ trim(url) # ""
  /\ generationsUsed >= 3
  /\ ~keySelected

\* C23: in MindCanvas a generate action on a non-empty URL with three or more
\* generations used and no key selected opens the upgrade modal, issues no
\* call and leaves status, result, error and the count as they were; after
\* the count is loaded it changes only by one, when a request reaches
\* Complete, and every request reaching Complete adds one; a request ending
\* in Error leaves it.
FreeTierCounted ==
  [][/\ TurnedAway =>
          /\ showUpgradeModal'
          /\ UNCHANGED <<status, result, error, generationsUsed, requests, inflight,
                         settled, keyDialogs>>
     /\ variant = "MindCanvas" =>
          /\ \A id \in 1..Len(requests) :
               /\ MovesTo(id, "complete") => generationsUsed' = generationsUsed + 1
               /\ MovesTo(id, "error") => generationsUsed' = generationsUsed
          /\ (mounted /\ generationsUsed' # generationsUsed) =>
               \E id \in 1..Len(requests) : MovesTo(id, "complete")]_vars

UpgradeModalAtLimit ==
  /\ variant = "MindCanvas"
  /\ showUpgradeModal
  /\ generationsUsed = 3
  /\ ~keySelected
  /\ Len(requests) = 1
  /\ Completed(1)
  /\ status = "COMPLETE"
  /\ inflight = {}

-----------------------------------------------------------------------------
(* Properties of analyzeVideoContent (SpecParse)                           *)

\* analyzeVideoContent has settled on a non-empty reply
Analyzed == outcome # <<>> /\ reply # <<>> /\ reply[1] # ""

\* what JSON.parse makes of the candidate string of the reply
ParsedCandidate == JSONparse(ExtractCandidate(reply[1]))

HasProp(data, name) ==
  data.t = "obj" /\ \E i \in 1..Len(data.items) : data.items[i].k = name

MentionsRefusal(text) ==
  \E phrase \in {"unavailable", "restricted", "cannot access", "unable to access", "sorry"} :
    includes(toLowerCase(text), phrase)

\* C8: when the candidate parses to an object with an error field of value v,
\* analyzeVideoContent fails with message v, whatever v and the reply say.
ErrorFieldSurfaced ==
  (Analyzed /\ ParsedCandidate.ok /\ HasProp(ParsedCandidate.val, "error")) =>
    /\ ~outcome[1].ok
    /\ outcome[1].message = JsString(GetProp(ParsedCandidate.val, "error"))

\* C9: when the candidate parses to a JSON value without a truthy error field
\* and without both summary and imagePrompt, analyzeVideoContent fails with
\* IncompleteData.
IncompleteDataReported ==
  ( /\ Analyzed
    /\ ParsedCandidate.ok
    /\ ~Truthy(GetProp(ParsedCandidate.val, "error"))
    /\ ~(Truthy(GetProp(ParsedCandidate.val, "summary"))
           /\ Truthy(GetProp(ParsedCandidate.val, "imagePrompt"))) ) =>
    /\ ~outcome[1].ok
    /\ outcome[1].message = IncompleteDataMessage

\* C10: when the candidate of a non-empty reply does not parse, the failure is
\* ModelRefused with the full raw text if the lowercased text holds a refusal
\* phrase, and InvalidFormat otherwise.
UnparsableReplyClassified ==
  (Analyzed /\ ~ParsedCandidate.ok) =>
    /\ ~outcome[1].ok
    /\ MentionsRefusal(reply[1]) => outcome[1].message = reply[1]
    /\ ~MentionsRefusal(reply[1]) => outcome[1].message = InvalidFormatMessage

RefusalSurfaced ==
  /\ Analyzed
  /\ ~ParsedCandidate.ok
  /\ MentionsRefusal(reply[1])
  /\ reply[1] # trim(reply[1])
  /\ outcome[1].message = reply[1]

\* prose that may stand before and after a bare object
Prose == {"", "Sorry, ", "Note {x} ", " "}

BraceFreeProse == {w \in Prose : ~includes(w, "{") /\ ~includes(w, "}")}

\* the bodies that are an object which, alone, is returned as the analysis
GoodObjects == {J \in Bodies : CharAt(J, 0) = "{" /\ analyzeVideoContent(<<J>>).ok}

\* the bodies of the shape { ... }
ObjectBodies == {b \in Bodies : CharAt(b, 0) = "{" /\ CharAt(b, Len(b) - 1) = "}"}

\* J alone, J in a fenced block, J between two pieces of prose
WrappedForms(J, prose) ==
  {J, "^^^json\n" \o J \o "\n^^^"} \cup {pre \o J \o post : pre \in prose, post \in prose}

\* every wrapped form of a good object is returned as the object alone is
SameAnalysis(prose) ==
  \A J \in GoodObjects :
    reply[1] \in WrappedForms(J, prose) => outcome[1] = analyzeVideoContent(<<J>>)

\* the replies that hold the object O in a fenced block, whatever is around it
FencedForms(O) ==
  {pre \o open \o O \o close \o post :
     pre \in Wraps(MaxWrap), open \in {"^^^json\n", "^^^"},
     close \in {"\n^^^", " ^^^"}, post \in Wraps(MaxWrap)}

\* the inner content of a fenced block is the candidate
FencedCandidate ==
  \A O \in ObjectBodies : reply[1] \in FencedForms(O) => candidate = <<O>>

BracesAt(s, brace) == {i \in 0..(Len(s) - 1) : CharAt(s, i) = brace}

\* from the first "{" to the last "}" of s, s itself when there is no such pair
BraceSpan(s, opens, closes) ==
  IF opens # {} /\ closes # {} /\ SetMax(closes) > SetMin(opens)
    THEN substring(s, SetMin(opens), SetMax(closes) + 1)
    ELSE s

SpanOf(s) == BraceSpan(s, BracesAt(s, "{"), BracesAt(s, "}"))

\* without a fence the candidate is the brace span of the trimmed text
UnfencedCandidate ==
  ~includes(reply[1], Fence) => candidate = <<SpanOf(trim(reply[1]))>>

-----------------------------------------------------------------------------
(* Properties of generateInfographic (SpecImage)                           *)

\* generateInfographic has settled
Synthesized == image # <<>>

\* the first candidate of the response has a parts list
HasPartsList(r) ==
  /\ r.candidates # <<>>
  /\ r.candidates[1] # <<>>
  /\ r.candidates[1][1].content # <<>>
  /\ r.candidates[1][1].content[1].parts # <<>>

\* the parts of the response, none when there is no parts list
PartsOf(r) == IF HasPartsList(r) THEN r.candidates[1][1].content[1].parts[1] ELSE <<>>

CarriesImage(part) == part.inlineData # <<>> /\ part.inlineData[1].data # ""

\* C12: when no part of the response carries inline image data, whatever else
\* the response lacks, generateInfographic fails with NoImageData.
NoImageDataReported ==
  (Synthesized /\ \A i \in 1..Len(PartsOf(response[1])) : ~CarriesImage(PartsOf(response[1])[i])) =>
    image[1] = Thrown(NoImageDataMessage)

\* C13: when the first candidate has a parts list with a part carrying inline
\* data, generateInfographic returns the data URI of the first such part in
\* list order: the parts before it are skipped, the ones after it ignored.
FirstInlineDataReturned ==
  Synthesized =>
    \A i \in 1..Len(PartsOf(response[1])) :
      ( /\ CarriesImage(PartsOf(response[1])[i])
        /\ \A j \in 1..(i - 1) : ~CarriesImage(PartsOf(response[1])[j]) ) =>
      image[1] = Returned(JStr("data:image/png;base64," \o
                               PartsOf(response[1])[i].inlineData[1].data))

SecondPartReturned ==
  /\ Synthesized
  /\ PartsOf(response[1]) = <<TextPart, InlinePart("QQ=="), InlinePart("Qg==")>>
  /\ image[1] = Returned(JStr("data:image/png;base64,QQ=="))

-----------------------------------------------------------------------------
(* Properties of the prompt of analyzeVideoContent (SpecPrompt)            *)

\* the text of s after the first occurrence of marker
AfterFirst(s, marker) == substring(s, indexOf(s, marker) + Len(marker), Len(s))

\* the text of s up to the first occurrence of stop, all of s without one
UpTo(s, stop) == IF indexOf(s, stop) = -1 THEN s ELSE substring(s, 0, indexOf(s, stop))

ClaimedVideoId(u) ==
  IF includes(u, "v=") THEN UpTo(AfterFirst(u, "v="), "&")
  ELSE IF includes(u, "youtu.be/") THEN UpTo(AfterFirst(u, "youtu.be/"), "?")
  ELSE ""

\* C17: the identifier is the text after the first "v=" up to the next "&",
\* otherwise the text after "youtu.be/" up to the next "?", otherwise empty;
\* the extraction never throws, and the two URLs of the specification yield
\* ABC123 and XYZ789.
VideoIdExtracted ==
  prompt # <<>> =>
    /\ prompt[1].videoId = ClaimedVideoId(videoUrl)
    /\ ~prompt[1].caught
    /\ videoUrl = "https://www.youtube.com/watch?v=ABC123&t=5" => prompt[1].videoId = "ABC123"
    /\ videoUrl = "https://youtu.be/XYZ789?foo=1" => prompt[1].videoId = "XYZ789"

\* C18: the style description of the prompt is never empty: Custom uses the
\* custom text when it is not empty and the default when it is empty or
\* absent; Whiteboard and Notebook have their own description whatever the
\* custom text.
StyleDescriptionResolved ==
  prompt # <<>> =>
    /\ prompt[1].styleDescription # ""
    /\ (style = "Custom" /\ customStylePrompt \notin {<<>>, <<"">>}) =>
         prompt[1].styleDescription = customStylePrompt[1]
    /\ (style = "Custom" /\ customStylePrompt \in {<<>>, <<"">>}) =>
         prompt[1].styleDescription = "A creative data visualization."
    /\ style = "Whiteboard" =>
         prompt[1].styleDescription = buildPrompt("", "Whiteboard", <<>>).styleDescription
    /\ style = "Notebook" =>
         prompt[1].styleDescription = buildPrompt("", "Notebook", <<>>).styleDescription

CustomFallbackUsed ==
  /\ prompt # <<>>
  /\ style = "Custom"
  /\ customStylePrompt = <<"">>
  /\ prompt[1].styleDescription = "A creative data visualization."

====
